---- MODULE Spec2Model ----
(***************************************************************************)
(* A model of icoro.py: the two coroutine runners IStack (a trampoline     *)
(* with an explicit stack of coroutines) and IRotator (a round-robin       *)
(* rotator over a registry of coroutine infos), with the action table      *)
(* set-up of IBase they share.                                             *)
(*                                                                         *)
(* A coroutine is an input of run: at every resumption it either yields a  *)
(* request (name, args), returns a value or raises.  Free coroutines pick  *)
(* that move nondeterministically; scripted ones follow a fixed program.   *)
(***************************************************************************)
EXTENDS Integers, Sequences, FiniteSets, TLC

\* Bounds of the model.
MaxTasks == 3   \* coroutine objects created in one run (root included)
MaxReq == 4     \* scheduling requests of one run by free coroutines
MaxCalls == 1   \* other requests of one run
MaxDepth == 4   \* sub-tasks nested by the scripted root under IStack

Ids == 0 .. (IF MaxDepth >= MaxTasks THEN MaxDepth ELSE MaxTasks - 1)

\* ---------------------------------------------------------------- values
\* Python values a coroutine handles are encoded as tuples of integers:
\* None is the empty tuple, an integer n is <<n>>, a tuple of results is the
\* concatenation of its items (None inside a tuple is written -1).
NoneV == << >>
IntV(n) == << n >>
Item(v) == IF v = NoneV THEN << -1 >> ELSE v

\* Exceptions are named; NoExc is Python's None in an 'exc' slot.
NoExc == "None"
Ordinary == {"E1", "E2", "KeyError", "TypeError", "ValueError"}
FatalExc == {"KeyboardInterrupt"}

\* isinstance(e, Exception): ordinary failures, as opposed to the other
\* BaseExceptions (KeyboardInterrupt, ...).
IsException(e) == e \in Ordinary

\* ---------------------------------------------------------------- tables
StackReserved == << "stack_add" >>
RotReserved == << "new_coro", "wait_coro", "this_id", "this_info", "all_info", "schedule" >>

Reserved(eng) == IF eng = "stack" THEN StackReserved ELSE RotReserved

Range(s) == { s[i] : i \in DOMAIN s }

\* The names bound in locals() at the call of _check_actions: every nested
\* function defined above the call.
Locals(eng) == Range(Reserved(eng))

\* The embedder's own actions: echo(x) returns x, fail() raises an ordinary
\* failure, abort() raises a non-ordinary one.
Embedder == {"echo", "fail", "abort"}

\* The tables handed to run: something that is no dict, the embedder's
\* table, and the embedder's table with one reserved name already in it.
Tables(eng) ==
    { [dict |-> FALSE, keys |-> {}], [dict |-> TRUE, keys |-> Embedder] }
    \cup { [dict |-> TRUE, keys |-> Embedder \cup {r}] : r \in Range(Reserved(eng)) }

\* Bind without the test 'name in actions': a reserved name of the caller's
\* table is overwritten.
RECURSIVE BindOverwrites(_, _, _, _)
BindOverwrites(tbl, res, loc, i) ==
    IF i > Len(res) THEN [err |-> NoExc, tbl |-> tbl]
    ELSE IF res[i] \notin loc THEN [err |-> "ValueError", tbl |-> tbl]
    ELSE BindOverwrites([tbl EXCEPT !.keys = @ \cup {res[i]}], res, loc, i + 1)

\* Bind that runs the two tests and inserts nothing into the caller's table.
RECURSIVE BindLeavesTable(_, _, _, _)
BindLeavesTable(tbl, res, loc, i) ==
    IF i > Len(res) THEN [err |-> NoExc, tbl |-> tbl]
    ELSE IF res[i] \in tbl.keys THEN [err |-> "ValueError", tbl |-> tbl]
    ELSE IF res[i] \notin loc THEN [err |-> "ValueError", tbl |-> tbl]
    ELSE BindLeavesTable(tbl, res, loc, i + 1)

\* IBase._check_actions: the loop over cls._reserved from the i-th name on.
RECURSIVE Bind(_, _, _, _)
Bind(tbl, res, loc, i) ==
    IF i > Len(res) THEN [err |-> NoExc, tbl |-> tbl]
    ELSE IF res[i] \in tbl.keys THEN [err |-> "ValueError", tbl |-> tbl]
    ELSE IF res[i] \notin loc THEN [err |-> "ValueError", tbl |-> tbl]
    ELSE Bind([tbl EXCEPT !.keys = @ \cup {res[i]}], res, loc, i + 1)

\* IBase._check_actions(actions, locals_)
CheckActions(tbl, res, loc) ==
    IF ~tbl.dict THEN [err |-> "TypeError", tbl |-> tbl]
    ELSE Bind(tbl, res, loc, 1)

\* ---------------------------------------------------------------- moves
\* What a resumed coroutine does: k = "req" yields the request (name, args),
\* k = "ret" returns v (StopIteration(v)), k = "raise" raises e.
Move(k, name, v, r, p, e) == [k |-> k, name |-> name, v |-> v, r |-> r, p |-> p, e |-> e]
Req(name) == Move("req", name, NoneV, 0, "", NoExc)
ReqV(name, v) == Move("req", name, v, 0, "", NoExc)
ReqR(name, r) == Move("req", name, NoneV, r, "", NoExc)
ReqP(name, p) == Move("req", name, NoneV, 0, p, NoExc)
Ret(v) == Move("ret", "", v, 0, "", NoExc)
Raise(e) == Move("raise", "", NoneV, 0, "", e)
NoMove == Move("none", "", NoneV, 0, "", NoExc)

\* ---------------------------------------------------------------- state
VARIABLES
    engine,     \* "stack" (IStack.run) or "rot" (IRotator.run)
    actions,    \* the 'actions' table handed to run: [dict, keys]
    pc,         \* where run is: "setup", "loop" (IStack), "sweep"/"for"/"while"
                \* (IRotator), "returned", "raised"
    result,     \* what run returned or raised
    stack,      \* IStack: the list of coroutines, the last one running
    val,        \* IStack: the value to send next
    exc,        \* IStack: the exception to throw next (NoExc: none)
    coro_info,  \* IRotator: the registry, ids in insertion order
    info,       \* IRotator: the info dict of every id created so far
    id_,        \* IRotator: the next id of _new_coro_adder
    todo,       \* IRotator: what is left of list(reversed(coro_info.items()))
    cid,        \* IRotator: the id the for loop is at
    active,     \* IRotator: the local 'active' of the for body
    ncoro,      \* coroutine objects created so far
    n,          \* per scripted coroutine: how many times it was resumed
    prog,       \* per coroutine: the program it runs ("free" or a script)
    parent,     \* per coroutine: the coroutine that pushed or spawned it
    last,       \* the latest resumption: who, with what, and the move made
    sched,      \* IRotator: ids that requested schedule() in this sweep
    owed,       \* IRotator: ids that requested schedule() in the sweep before
    log,        \* IRotator: ids in the order they were resumed in this sweep
    calls,      \* requests so far that are no scheduling requests
    reqs,       \* scheduling requests so far by free coroutines
    given,      \* the 'actions' table as run received it
    pend,       \* per coroutine: the outcome of the dispatch of its latest request
    waits,      \* IRotator, per coroutine: the id whose info it is suspended on
    outcome,    \* IRotator, per coroutine: how the coroutine itself ended
    seen,       \* IRotator: ids in the order the for loop took them in this sweep
    born,       \* IRotator: ids new_coro registered since this sweep started
    depth       \* IStack: how many sub-tasks the scripted root nests

vars == << engine, actions, pc, result, stack, val, exc, coro_info, info, id_,
           todo, cid, active, ncoro, n, prog, parent, last, sched, owed, log,
           calls, reqs, given, pend, waits, outcome, seen, born,
           depth >>

stackVars == << stack, val, exc >>
rotVars == << coro_info, info, id_, todo, cid, active, sched, owed, log, waits,
             outcome, seen, born >>

NoResult == [kind |-> "none", v |-> NoneV, e |-> NoExc]
Returned(v) == [kind |-> "value", v |-> v, e |-> NoExc]
Raised(e) == [kind |-> "error", v |-> NoneV, e |-> e]

\* The info dict _new_coro_adder builds for a new coroutine.
NewInfo == [val |-> NoneV, exc |-> NoExc, active |-> TRUE, terminated |-> FALSE,
            waiting_coros |-> << >>]

\* The scripted roots under IRotator: the root of the two-children scenario,
\* and roots that spawn one child, wait for it and return its result.
ScriptedRoots == {"pairroot", "waitroot", "failroot"}

\* The programs run is started with: a free coroutine, or a scripted root.
RootProgs(eng) == IF eng = "stack" THEN {"free", "nest"} ELSE {"free"} \cup ScriptedRoots

\* No request of the coroutine was dispatched yet.
NoPend == [set |-> FALSE, name |-> "", ok |-> FALSE, val |-> NoneV, exc |-> NoExc]

\* The dispatch of the request m ended with o (ok: the name was in the table).
Pending(m, ok, o) == [set |-> TRUE, name |-> m.name, ok |-> ok, val |-> o.val, exc |-> o.exc]

NoLast == [task |-> -1, val |-> NoneV, exc |-> NoExc, mv |-> NoMove, tick |-> FALSE]

\* The state at the call of run, of engine eng with a root out of roots,
\* when the coroutines have spent c of their requests to the embedder.
InitFrom(eng, roots, c) ==
    /\ engine = eng
    /\ actions \in Tables(eng)
    /\ pc = "setup"
    /\ result = NoResult
    /\ stack = << >>
    /\ val = NoneV
    /\ exc = NoExc
    /\ coro_info = << >>
    /\ info = [i \in Ids |-> NewInfo]
    /\ id_ = 0
    /\ todo = << >>
    /\ cid = -1
    /\ active = FALSE
    /\ ncoro = 1
    /\ n = [i \in Ids |-> 0]
    /\ \E p \in roots : prog = [i \in Ids |-> IF i = 0 THEN p ELSE "free"]
    /\ parent = [i \in Ids |-> -1]
    /\ last = NoLast
    /\ sched = {}
    /\ owed = {}
    /\ log = << >>
    /\ calls = c
    /\ reqs = 0
    /\ given = actions
    /\ pend = [i \in Ids |-> NoPend]
    /\ waits = [i \in Ids |-> -1]
    /\ outcome = [i \in Ids |-> NoResult]
    /\ seen = << >>
    /\ born = {}
    /\ depth \in (IF prog[0] = "nest" THEN 0 .. MaxDepth ELSE {0})

InitWith(eng, roots) == InitFrom(eng, roots, 0)

\* ---------------------------------------------------------------- dispatch
\* IBase._action_getter: await actions[name](*args, **kwargs) for the lookup
\* and the embedder's actions.  A reserved name resolves to the engine's own
\* nested function, whose effect the engine's step adds.
Outcome(tbl, m) ==
    IF m.name \notin tbl.keys THEN [val |-> NoneV, exc |-> "KeyError"]
    ELSE IF m.name = "echo" THEN [val |-> m.v, exc |-> NoExc]
    ELSE IF m.name = "fail" THEN [val |-> NoneV, exc |-> "E2"]
    ELSE IF m.name = "abort" THEN [val |-> NoneV, exc |-> "KeyboardInterrupt"]
    ELSE [val |-> NoneV, exc |-> NoExc]

\* Escape with the inner handler catching every failure of the dispatch
\* ('except BaseException' in the place of 'except Exception').
EscapeCoroutineOnly(tbl, m) ==
    IF m.k = "ret" THEN [kind |-> "stop", v |-> m.v, e |-> NoExc]
    ELSE IF m.k = "raise" THEN [kind |-> "exc", v |-> NoneV, e |-> m.e]
    ELSE [kind |-> "none", v |-> NoneV, e |-> NoExc]

\* What reaches the handler 'except BaseException as e' of the engine loop
\* after the move m: nothing, StopIteration(v), or an exception e (raised by
\* the coroutine, or a non-ordinary one raised by the dispatch, which
\* 'except Exception' lets through).
Escape(tbl, m) ==
    IF m.k = "ret" THEN [kind |-> "stop", v |-> m.v, e |-> NoExc]
    ELSE IF m.k = "raise" THEN [kind |-> "exc", v |-> NoneV, e |-> m.e]
    ELSE IF ~IsException(Outcome(tbl, m).exc) /\ Outcome(tbl, m).exc # NoExc
         THEN [kind |-> "exc", v |-> NoneV, e |-> Outcome(tbl, m).exc]
    ELSE [kind |-> "none", v |-> NoneV, e |-> NoExc]

\* ---------------------------------------------------------------- coroutines
\* The values a free coroutine returns: None, its own number, or what it was
\* resumed with.
RetVals(t, rv) == {NoneV, IntV(t), rv}

\* The exceptions a free coroutine raises: its own, or the one thrown into it.
RaiseExcs(re) == {"E1", "KeyboardInterrupt"} \cup ({re} \ {NoExc})

Terminations(t, rv, re) ==
    { Ret(v) : v \in RetVals(t, rv) } \cup { Raise(e) : e \in RaiseExcs(re) }

\* The scheduling requests: the ones that change which coroutine runs next.
Scheduling == {"stack_add", "new_coro", "wait_coro", "schedule"}

\* The requests that name an action of the embedder, or no action at all.
Calls ==
    IF calls < MaxCalls
    THEN { ReqV("echo", IntV(42)), Req("fail"), Req("abort"), Req("nope") }
    ELSE {}

\* The requests of a free coroutine under IStack.
StackRequests ==
    Calls
    \cup (IF ncoro < MaxTasks /\ reqs < MaxReq THEN { ReqP("stack_add", "free") } ELSE {})

\* The constant the innermost sub-task of the nesting scenario returns.
Const == IntV(7)

\* The nesting scenario under IStack: coroutine t, with depth - t sub-tasks
\* still to nest, returns the constant at once when there is none, and
\* otherwise does 'return await stack_add(sub)'.  It does not catch what is
\* thrown into it.
Nest(t, rv, re) ==
    IF re # NoExc THEN Raise(re)
    ELSE IF t = depth THEN Ret(Const)
    ELSE IF n[t] = 0 THEN ReqP("stack_add", "nest")
    ELSE Ret(rv)

\* The moves of coroutine t under IStack when resumed with the value rv or
\* with the exception re thrown into it.
StackMoves(t, rv, re) ==
    IF prog[t] = "nest" THEN { Nest(t, rv, re) }
    ELSE Terminations(t, rv, re) \cup StackRequests

\* ---------------------------------------------------------------- IStack.run
\* Lines 82-87: _check_actions, then stack = [coro], val = None, exc = None.
StackSetup ==
    /\ engine = "stack" /\ pc = "setup"
    /\ LET c == CheckActions(actions, Reserved("stack"), Locals("stack")) IN
       /\ actions' = c.tbl
       /\ IF c.err # NoExc
          THEN /\ pc' = "raised"
               /\ result' = Raised(c.err)
               /\ UNCHANGED stackVars
          ELSE /\ pc' = "loop"
               /\ stack' = << 0 >>
               /\ val' = NoneV
               /\ exc' = NoExc
               /\ UNCHANGED result
    /\ UNCHANGED << engine, depth, rotVars, ncoro, n, prog, parent, last, calls, reqs,
                    given, pend >>

\* StackDeliver with the pending exception ignored: always send(val).
StackDeliverSendOnly(v, e) == [val |-> v, exc |-> NoExc]

\* Lines 91-94: what the top coroutine is resumed with, throw(exc) when an
\* exception is pending, send(val) otherwise.
StackDeliver(v, e) ==
    IF e # NoExc THEN [val |-> NoneV, exc |-> e] ELSE [val |-> v, exc |-> NoExc]

\* StackAdd putting the coroutine in the place of the requester instead of
\* above it.
StackAddReplacesTop(stk, c) == Append(SubSeq(stk, 1, Len(stk) - 1), c)

\* Lines 79-80: stack_add appends the coroutine to the stack.
StackAdd(stk, c) == Append(stk, c)

\* StackUnwound with the StopIteration value dropped.
StackUnwoundNoValue(esc) ==
    IF esc.kind = "stop" THEN [val |-> NoneV, exc |-> NoExc]
    ELSE [val |-> NoneV, exc |-> esc.e]

\* Lines 104-108: the pending value and exception after the top coroutine is
\* deleted from the stack.
StackUnwound(esc) ==
    IF esc.kind = "stop" THEN [val |-> esc.v, exc |-> NoExc]
    ELSE [val |-> NoneV, exc |-> esc.e]

\* Lines 110-113: what run does when the only coroutine left ends.
StackOutcome(esc) ==
    IF esc.kind = "stop" THEN Returned(esc.v) ELSE Raised(esc.e)

Top == stack[Len(stack)]

Resumed(t, d, m) ==
    /\ last' = [task |-> t, val |-> d.val, exc |-> d.exc, mv |-> m, tick |-> ~last.tick]
    /\ calls' = IF m.k = "req" /\ m.name \notin Scheduling THEN calls + 1 ELSE calls
    /\ reqs' = IF m.k = "req" /\ m.name \in Scheduling /\ prog[t] = "free"
               THEN reqs + 1 ELSE reqs
    /\ n' = IF prog[t] = "free" THEN n ELSE [n EXCEPT ![t] = @ + 1]

\* One turn of the loop in which the top coroutine yields a request and the
\* request is dispatched (lines 90-100).
StackDispatch ==
    /\ engine = "stack" /\ pc = "loop"
    /\ LET d == StackDeliver(val, exc) IN
       \E m \in StackMoves(Top, d.val, d.exc) :
          /\ Escape(actions, m).kind = "none"
          /\ Resumed(Top, d, m)
          /\ LET o == Outcome(actions, m) IN
             /\ val' = o.val
             /\ exc' = o.exc
             /\ pend' = [pend EXCEPT ![Top] = Pending(m, m.name \in actions.keys, o)]
             /\ IF m.name = "stack_add" /\ m.name \in actions.keys
                THEN /\ stack' = StackAdd(stack, ncoro)
                     /\ ncoro' = ncoro + 1
                     /\ prog' = [prog EXCEPT ![ncoro] = m.p]
                     /\ parent' = [parent EXCEPT ![ncoro] = Top]
                ELSE UNCHANGED << stack, ncoro, prog, parent >>
    /\ UNCHANGED << engine, depth, actions, pc, result, rotVars, given >>

\* One turn of the loop in which an exception reaches the handler while more
\* than one coroutine is on the stack (lines 102-108).
StackUnwind ==
    /\ engine = "stack" /\ pc = "loop"
    /\ Len(stack) > 1
    /\ LET d == StackDeliver(val, exc) IN
       \E m \in StackMoves(Top, d.val, d.exc) :
          /\ Escape(actions, m).kind # "none"
          /\ Resumed(Top, d, m)
          /\ stack' = SubSeq(stack, 1, Len(stack) - 1)
          /\ val' = StackUnwound(Escape(actions, m)).val
          /\ exc' = StackUnwound(Escape(actions, m)).exc
          /\ pend' = [pend EXCEPT ![Top] = NoPend]
    /\ UNCHANGED << engine, depth, actions, pc, result, rotVars, ncoro, prog, parent,
                    given >>

\* One turn of the loop in which an exception reaches the handler while the
\* stack holds one coroutine (lines 109-113): run returns or raises.
StackExit ==
    /\ engine = "stack" /\ pc = "loop"
    /\ Len(stack) = 1
    /\ LET d == StackDeliver(val, exc) IN
       \E m \in StackMoves(Top, d.val, d.exc) :
          /\ Escape(actions, m).kind # "none"
          /\ Resumed(Top, d, m)
          /\ result' = StackOutcome(Escape(actions, m))
          /\ pc' = IF Escape(actions, m).kind = "stop" THEN "returned" ELSE "raised"
          /\ pend' = [pend EXCEPT ![Top] = NoPend]
    /\ UNCHANGED << engine, depth, actions, stackVars, rotVars, ncoro, prog, parent,
                    given >>

NextStack == StackSetup \/ StackDispatch \/ StackUnwind \/ StackExit

InitStack == InitWith("stack", RootProgs("stack"))

SpecStack == InitStack /\ [][NextStack]_vars

\* IStack.run driven to its end: the loop 'while True' never stops while a
\* step is possible.
FairStack == InitStack /\ [][NextStack]_vars /\ WF_vars(NextStack)

\* ---------------------------------------------------------------- IRotator
\* References handed to coroutines, encoded as values: the info dict of id r,
\* and the registry coro_info.
RefV(r) == << 100 + r >>
RegistryV == << 200 >>

RECURSIVE Reverse(_)
Reverse(s) == IF s = << >> THEN << >> ELSE Append(Reverse(Tail(s)), Head(s))

\* Without that leaves the info in the registry.
WithoutKeeps(s, x) == s

RECURSIVE Without(_, _)
Without(s, x) ==
    IF s = << >> THEN << >>
    ELSE IF Head(s) = x THEN Without(Tail(s), x)
    ELSE << Head(s) >> \o Without(Tail(s), x)

\* GetResult that ignores 'exc' and always returns 'val'.
GetResultValueOnly(rec) == Returned(rec.val)

\* IRotator.get_result(info)
GetResult(rec) == IF rec.exc # NoExc THEN Raised(rec.exc) ELSE Returned(rec.val)

\* The coroutines t spawned, in spawn order.
RECURSIVE ChildrenFrom(_, _)
ChildrenFrom(t, i) ==
    IF i >= ncoro THEN << >>
    ELSE (IF parent[i] = t THEN << i >> ELSE << >>) \o ChildrenFrom(t, i + 1)
Children(t) == ChildrenFrom(t, 0)

\* return tuple(get_result(r) for r in records), in a coroutine: the tuple of
\* the results, or the first failure get_result raises.
RECURSIVE GatherFrom(_, _)
GatherFrom(cs, acc) ==
    IF cs = << >> THEN Ret(acc)
    ELSE IF GetResult(info[Head(cs)]).kind = "error"
         THEN Raise(GetResult(info[Head(cs)]).e)
    ELSE GatherFrom(Tail(cs), acc \o Item(GetResult(info[Head(cs)]).v))
Gather(t) == GatherFrom(Children(t), << >>)

\* The requests of a free coroutine under IRotator.
RotRequests ==
    Calls
    \cup (IF calls < MaxCalls THEN { Req("this_id") } ELSE {})
    \cup (IF reqs < MaxReq
          THEN { Req("schedule") }
               \cup { ReqR("wait_coro", r) : r \in 0 .. (id_ - 1) }
               \cup (IF ncoro < MaxTasks THEN { ReqP("new_coro", "free") } ELSE {})
          ELSE {})

\* The scripted coroutines.  In the two-children scenario the root spawns
\* two children, waits for both in spawn order and returns the pair of their
\* results; a child calls schedule() once and returns its id.  The other
\* roots spawn one child (one that returns its id, or one that raises E1 after
\* its schedule()), wait for it and return the tuple of its result.  A script
\* does not catch what is thrown into it.
Script(t, rv, re) ==
    IF re # NoExc THEN Raise(re)
    ELSE IF prog[t] = "pairroot" THEN
        CASE n[t] = 0 -> ReqP("new_coro", "schedchild")
          [] n[t] = 1 -> ReqP("new_coro", "schedchild")
          [] n[t] = 2 -> ReqR("wait_coro", Children(t)[1])
          [] n[t] = 3 -> ReqR("wait_coro", Children(t)[2])
          [] OTHER -> Gather(t)
    ELSE IF prog[t] \in {"waitroot", "failroot"} THEN
        CASE n[t] = 0 -> ReqP("new_coro", IF prog[t] = "waitroot" THEN "schedchild"
                                                                  ELSE "failchild")
          [] n[t] = 1 -> ReqR("wait_coro", Children(t)[1])
          [] OTHER -> Gather(t)
    ELSE
        CASE n[t] = 0 -> Req("schedule")
          [] OTHER -> IF prog[t] = "failchild" THEN Raise("E1") ELSE Ret(IntV(t))

\* The moves of coroutine t under IRotator when resumed with the value rv or
\* with the exception re thrown into it.
RotMoves(t, rv, re) ==
    IF prog[t] # "free" THEN { Script(t, rv, re) }
    ELSE Terminations(t, rv, re)
         \cup (IF Len(Children(t)) >= 2 THEN { Gather(t) } ELSE {})
         \cup RotRequests

\* Lines 204-212: _check_actions, then the registry with the root's info.
RotSetup ==
    /\ engine = "rot" /\ pc = "setup"
    /\ LET c == CheckActions(actions, Reserved("rot"), Locals("rot")) IN
       /\ actions' = c.tbl
       /\ IF c.err # NoExc
          THEN /\ pc' = "raised"
               /\ result' = Raised(c.err)
               /\ UNCHANGED << coro_info, info, id_ >>
          ELSE /\ pc' = "sweep"
               /\ coro_info' = << 0 >>
               /\ info' = [info EXCEPT ![0] = NewInfo]
               /\ id_' = 1
               /\ UNCHANGED result
    /\ UNCHANGED << engine, depth, stackVars, todo, cid, active, sched, owed, log,
                    ncoro, n, prog, parent, last, calls, reqs, given, pend,
                    waits, outcome, seen, born >>

\* Snapshot without reversed().
SnapshotForward(reg) == reg

\* Line 215: the snapshot a sweep iterates, list(reversed(coro_info.items())).
Snapshot(reg) == Reverse(reg)

\* Lines 214-215: the root is not terminated, a sweep starts.
RotSweep ==
    /\ engine = "rot" /\ pc = "sweep"
    /\ ~info[0].terminated
    /\ todo' = Snapshot(coro_info)
    /\ pc' = "for"
    /\ owed' = sched
    /\ sched' = {}
    /\ log' = << >>
    /\ seen' = << >>
    /\ born' = {}
    /\ UNCHANGED << engine, depth, actions, result, stackVars, coro_info, info, id_, cid,
                    active, ncoro, n, prog, parent, last, calls, reqs, given,
                    pend, waits, outcome >>

\* Lines 214 and 247: the root is terminated, run returns get_result(main_info).
RotReturn ==
    /\ engine = "rot" /\ pc = "sweep"
    /\ info[0].terminated
    /\ result' = GetResult(info[0])
    /\ pc' = IF GetResult(info[0]).kind = "value" THEN "returned" ELSE "raised"
    /\ UNCHANGED << engine, depth, actions, stackVars, rotVars, ncoro, n, prog, parent,
                    last, calls, reqs, given, pend >>

\* Line 219: the condition of the while loop.
Driving(act, rec) == act /\ rec.active

\* Lines 215-219: the for loop takes the next item of the snapshot and reads
\* its 'active' (_check_info finds every key present).
RotVisit ==
    /\ engine = "rot" /\ pc = "for"
    /\ todo # << >>
    /\ cid' = Head(todo)
    /\ todo' = Tail(todo)
    /\ active' = info[Head(todo)].active
    /\ pc' = IF Driving(active', info[Head(todo)]) THEN "while" ELSE "for"
    /\ seen' = Append(seen, Head(todo))
    /\ UNCHANGED << engine, depth, actions, result, stackVars, coro_info, info, id_,
                    sched, owed, log, ncoro, n, prog, parent, last, calls, reqs,
                    given, pend, waits, outcome, born >>

\* Line 215: the snapshot is exhausted, back to the test of line 214.
RotSweepEnd ==
    /\ engine = "rot" /\ pc = "for"
    /\ todo = << >>
    /\ pc' = "sweep"
    /\ UNCHANGED << engine, depth, actions, result, stackVars, rotVars, ncoro, n, prog,
                    parent, last, calls, reqs, given, pend >>

\* RotDeliver with the pending exception ignored: always send(val).
RotDeliverSendOnly(rec) == [val |-> rec.val, exc |-> NoExc]

\* Lines 220-223: what the current coroutine is resumed with.
RotDeliver(rec) ==
    IF rec.exc # NoExc THEN [val |-> NoneV, exc |-> rec.exc]
    ELSE [val |-> rec.val, exc |-> NoExc]

\* Unvisited with the new coroutine put in front of what the for loop has
\* left, as if the loop iterated the live registry.
UnvisitedLive(td, newid) == << newid >> \o td

\* Line 215: the for loop iterates a list built when the sweep started, so
\* what it has left to visit is the same after new_coro registered newid.
Unvisited(td, newid) == td

\* Lines 184-185 and 169-182: new_coro registers the coroutine under the
\* next id with a fresh info.
NewCoro(inf, newid) == [inf EXCEPT ![newid] = NewInfo]

\* WaitCoro that returns at once when a coroutine waits on its own info.
WaitCoroSkipsSelf(inf, c, r) ==
    IF ~inf[r].terminated /\ r # c
    THEN [[inf EXCEPT ![r].waiting_coros = Append(@, c)] EXCEPT ![c].active = FALSE]
    ELSE inf

\* WaitCoro that suspends without the append to waiting_coros.
WaitCoroNoAppend(inf, c, r) ==
    IF ~inf[r].terminated
    THEN [inf EXCEPT ![c].active = FALSE]
    ELSE inf

\* WaitCoro without the call of _suspend().
WaitCoroNoSuspend(inf, c, r) ==
    IF ~inf[r].terminated
    THEN [inf EXCEPT ![r].waiting_coros = Append(@, c)]
    ELSE inf

\* Lines 187-190: wait_coro(info) by the coroutine c.
WaitCoro(inf, c, r) ==
    IF ~inf[r].terminated
    THEN [[inf EXCEPT ![r].waiting_coros = Append(@, c)] EXCEPT ![c].active = FALSE]
    ELSE inf

\* schedule() calling _suspend() instead of _pull_active().
ScheduleSuspends(inf, c, act) ==
    [info |-> [inf EXCEPT ![c].active = FALSE], active |-> act]

\* Lines 201-202 and 153-155: schedule() by the coroutine c clears the local
\* 'active' and leaves the infos alone.
Schedule(inf, c, act) == [info |-> inf, active |-> FALSE]

\* The value a reserved action returns to the coroutine c.
Builtin(m, c, newid) ==
    IF m.name = "new_coro" THEN RefV(newid)
    ELSE IF m.name = "this_id" THEN IntV(c)
    ELSE IF m.name = "this_info" THEN RefV(c)
    ELSE IF m.name = "all_info" THEN RegistryV
    ELSE NoneV

\* Lines 224-229: the outcome of the dispatch stored in the current info.
Stored(rec, o) == [rec EXCEPT !.val = o.val, !.exc = o.exc]

ResumedRot(t, d, m) ==
    /\ Resumed(t, d, m)
    /\ owed' = owed \ {t}
    /\ log' = IF log # << >> /\ log[Len(log)] = t THEN log ELSE Append(log, t)

\* One turn of the while loop in which the current coroutine yields a request
\* and the request is dispatched (lines 219-229).
RotDispatch ==
    /\ engine = "rot" /\ pc = "while"
    /\ LET d == RotDeliver(info[cid]) IN
       \E m \in RotMoves(cid, d.val, d.exc) :
          /\ Escape(actions, m).kind = "none"
          /\ ResumedRot(cid, d, m)
          /\ LET known == m.name \in actions.keys
                 o == IF known /\ m.name \in Range(RotReserved)
                      THEN [val |-> Builtin(m, cid, id_), exc |-> NoExc]
                      ELSE Outcome(actions, m)
                 inf1 == IF known /\ m.name = "new_coro" THEN NewCoro(info, id_)
                         ELSE IF known /\ m.name = "wait_coro" THEN WaitCoro(info, cid, m.r)
                         ELSE IF known /\ m.name = "schedule"
                              THEN Schedule(info, cid, active).info
                         ELSE info
                 act1 == IF known /\ m.name = "schedule"
                         THEN Schedule(info, cid, active).active ELSE active
             IN
             /\ info' = [inf1 EXCEPT ![cid] = Stored(@, o)]
             /\ active' = act1
             /\ pend' = [pend EXCEPT ![cid] = Pending(m, known, o)]
             /\ waits' = [waits EXCEPT ![cid] =
                              IF known /\ m.name = "wait_coro" /\ ~info[m.r].terminated
                              THEN m.r ELSE -1]
             /\ sched' = IF known /\ m.name = "schedule" THEN sched \cup {cid} ELSE sched
             /\ IF known /\ m.name = "new_coro"
                THEN /\ coro_info' = Append(coro_info, id_)
                     /\ id_' = id_ + 1
                     /\ ncoro' = ncoro + 1
                     /\ prog' = [prog EXCEPT ![id_] = m.p]
                     /\ parent' = [parent EXCEPT ![id_] = cid]
                     /\ born' = born \cup {id_}
                     /\ todo' = Unvisited(todo, id_)
                ELSE UNCHANGED << coro_info, id_, ncoro, prog, parent, born, todo >>
             /\ pc' = IF Driving(active', info'[cid]) THEN "while" ELSE "for"
    /\ UNCHANGED << engine, depth, actions, result, stackVars, cid, given, outcome,
                    seen >>

\* Lines 232-237: the info of a coroutine that ended with esc.
Ended(rec, esc) ==
    IF esc.kind = "stop"
    THEN [rec EXCEPT !.active = FALSE, !.terminated = TRUE, !.val = esc.v, !.exc = NoExc]
    ELSE [rec EXCEPT !.active = FALSE, !.terminated = TRUE, !.val = NoneV, !.exc = esc.e]

\* Wake that stops after the first info of waiting_coros.
WakeFirst(inf, ws) ==
    [i \in DOMAIN inf |->
        IF ws # << >> /\ ws[1] = i /\ ~inf[i].terminated
        THEN [inf[i] EXCEPT !.active = TRUE, !.val = NoneV, !.exc = NoExc]
        ELSE inf[i]]

\* Wake that wakes nobody.
WakeNobody(inf, ws) == inf

\* Lines 238-242: every info in waiting_coros that is not terminated is made
\* active with val and exc cleared.
Wake(inf, ws) ==
    [i \in DOMAIN inf |->
        IF (\E k \in DOMAIN ws : ws[k] = i) /\ ~inf[i].terminated
        THEN [inf[i] EXCEPT !.active = TRUE, !.val = NoneV, !.exc = NoExc]
        ELSE inf[i]]

\* Reraised for every failure, ordinary ones included.
ReraisedAlways(esc) == esc.kind = "exc"

\* Reraised for no failure: the failure stays on the coroutine's info.
ReraisedNever(esc) == FALSE

\* Lines 244-245: a failure that is no Exception is raised out of run.
Reraised(esc) == esc.kind = "exc" /\ ~IsException(esc.e)

\* One turn of the while loop in which an exception reaches the handler
\* (lines 231-245): the coroutine returned, raised, or the dispatch raised a
\* failure that is no Exception.
RotTerminate ==
    /\ engine = "rot" /\ pc = "while"
    /\ LET d == RotDeliver(info[cid]) IN
       \E m \in RotMoves(cid, d.val, d.exc) :
          /\ Escape(actions, m).kind # "none"
          /\ ResumedRot(cid, d, m)
          /\ LET esc == Escape(actions, m)
                 inf1 == [info EXCEPT ![cid] = Ended(@, esc)]
             IN
             /\ info' = Wake(inf1, inf1[cid].waiting_coros)
             /\ outcome' = [outcome EXCEPT ![cid] =
                                IF m.k = "ret" THEN Returned(m.v) ELSE Raised(esc.e)]
             /\ waits' = [waits EXCEPT ![cid] = -1]
             /\ pend' = [pend EXCEPT ![cid] = NoPend]
             /\ coro_info' = Without(coro_info, cid)
             /\ IF Reraised(esc)
                THEN /\ pc' = "raised"
                     /\ result' = Raised(esc.e)
                ELSE /\ pc' = "for"
                     /\ UNCHANGED result
    /\ UNCHANGED << engine, depth, actions, stackVars, id_, todo, cid, active, sched,
                    ncoro, prog, parent, given, seen, born >>

NextRot == RotSetup \/ RotSweep \/ RotReturn \/ RotVisit \/ RotSweepEnd
           \/ RotDispatch \/ RotTerminate

InitRot == InitWith("rot", RootProgs("rot"))

SpecRot == InitRot /\ [][NextRot]_vars

\* IRotator.run of the scripted roots, driven to its end: the loop never
\* stops while a step is possible.
InitScripted == InitWith("rot", ScriptedRoots)

FairScripted == InitScripted /\ [][NextRot]_vars /\ WF_vars(NextRot)

\* IRotator.run, driven to its end, of coroutines that request nothing but
\* the engine's scheduling actions (new_coro, wait_coro, schedule).
InitQuiet == InitFrom("rot", RootProgs("rot"), MaxCalls)

FairRot == InitQuiet /\ [][NextRot]_vars /\ WF_vars(NextRot)

\* Either engine.
Init == \E eng \in {"stack", "rot"} : InitWith(eng, RootProgs(eng))

Next == NextStack \/ NextRot

Spec == Init /\ [][Next]_vars

\* The embedder calls run of the same engine again, with a new coroutine and
\* the table object the run before was given, as that run left it.
RunAgain ==
    /\ pc \in {"returned", "raised"}
    /\ pc' = "setup"
    /\ given' = actions
    /\ result' = NoResult
    /\ stack' = << >> /\ val' = NoneV /\ exc' = NoExc
    /\ coro_info' = << >>
    /\ info' = [i \in Ids |-> NewInfo]
    /\ id_' = 0
    /\ todo' = << >> /\ cid' = -1 /\ active' = FALSE
    /\ ncoro' = 1
    /\ n' = [i \in Ids |-> 0]
    /\ \E p \in RootProgs(engine) :
          /\ prog' = [i \in Ids |-> IF i = 0 THEN p ELSE "free"]
          /\ depth' \in (IF p = "nest" THEN 0 .. MaxDepth ELSE {0})
    /\ parent' = [i \in Ids |-> -1]
    /\ last' = NoLast
    /\ sched' = {} /\ owed' = {} /\ log' = << >> /\ seen' = << >> /\ born' = {}
    /\ calls' = 0 /\ reqs' = 0
    /\ pend' = [i \in Ids |-> NoPend]
    /\ waits' = [i \in Ids |-> -1]
    /\ outcome' = [i \in Ids |-> NoResult]
    /\ UNCHANGED << engine, actions >>

\* Runs of either engine, one after the other on the same table object.
SpecRuns == Init /\ [][Next \/ RunAgain]_vars

\* ---------------------------------------------------------------- claims, IStack
\* The latest step resumed a coroutine.
Stepped == last'.tick # last.tick

\* C1: under IStack, the step after a stack_add(sub) request resumes sub,
\* pushed right above the requester; when a pushed coroutine returns v it is
\* removed and the coroutine that pushed it is resumed next, with send(v);
\* when the only coroutine left returns v, run returns v.
C1_StackAddReturnsSubValue ==
    [][ (engine = "stack" /\ Stepped) =>
          /\ (pc = "loop" /\ last.mv.k = "req" /\ last.mv.name = "stack_add") =>
                /\ last'.task = Top
                /\ parent[Top] = last.task
                /\ Len(stack) >= 2 /\ stack[Len(stack) - 1] = last.task
                /\ last'.val = NoneV /\ last'.exc = NoExc
          /\ (last'.mv.k = "ret" /\ Len(stack) > 1) =>
                /\ stack' = SubSeq(stack, 1, Len(stack) - 1)
                /\ pc' = "loop"
          /\ (pc = "loop" /\ last.mv.k = "ret") =>
                /\ last'.task = parent[last.task]
                /\ last'.val = last.mv.v
                /\ last'.exc = NoExc
          /\ (last'.mv.k = "ret" /\ Len(stack) = 1) =>
                /\ pc' = "returned"
                /\ result' = Returned(last'.mv.v)
          /\ pc' = "returned" => (last'.mv.k = "ret" /\ last'.task = 0)
      ]_vars

\* C1 witness: run returned the number of the third coroutine, which reached
\* the root only through the returns of nested stack_add requests.
C1_Witness ==
    /\ engine = "stack" /\ pc = "returned"
    /\ ncoro = 3 /\ parent[2] = 1 /\ parent[1] = 0
    /\ result = Returned(IntV(2))

\* C4: under IStack, when a pushed coroutine raises F it is removed and the
\* coroutine that pushed it is resumed next by throw(F), not by send; when
\* the only coroutine left raises F, run raises F.
C4_StackFailurePropagates ==
    [][ (engine = "stack" /\ Stepped) =>
          /\ (last'.mv.k = "raise" /\ Len(stack) > 1) =>
                /\ stack' = SubSeq(stack, 1, Len(stack) - 1)
                /\ pc' = "loop"
          /\ (pc = "loop" /\ last.mv.k = "raise") =>
                /\ last'.task = parent[last.task]
                /\ last'.exc = last.mv.e
                /\ last'.val = NoneV
          /\ (last'.mv.k = "raise" /\ Len(stack) = 1) =>
                /\ pc' = "raised"
                /\ result' = Raised(last'.mv.e)
                /\ last'.task = 0
      ]_vars

\* C4 witness: the ordinary failure of the fail action, raised by the third
\* coroutine, went through the second and the root uncaught and run raised it.
C4_Witness ==
    /\ engine = "stack" /\ pc = "raised"
    /\ ncoro = 3 /\ parent[2] = 1 /\ parent[1] = 0
    /\ reqs = 2 /\ calls = 1
    /\ last.task = 0 /\ last.exc = "E2" /\ last.mv = Raise("E2")
    /\ result = Raised("E2")

\* ---------------------------------------------------------------- claims, IRotator
\* C2: under IRotator, a coroutine suspended by wait_coro(R) on an info R that
\* was not terminated is resumed only once R is terminated, and at that
\* resumption get_result(R) is what R's coroutine ended with: its return
\* value, or its failure raised.
C2_WaiterResumesAfterTermination ==
    [][ (engine = "rot" /\ Stepped /\ waits[last'.task] # -1) =>
          LET r == waits[last'.task] IN
          /\ info[r].terminated
          /\ outcome[r] # NoResult
          /\ GetResult(info[r]) = outcome[r]
          /\ GetResult(info'[r]) = outcome[r]
      ]_vars

\* C2 witness: a coroutine was resumed after the one it waited for ended with
\* the failure E1.
C2_Witness ==
    /\ engine = "rot"
    /\ \E r, t \in Ids :
          /\ r # t
          /\ info[r].terminated /\ outcome[r] = Raised("E1")
          /\ t \in Range(info[r].waiting_coros)
          /\ last.task = t

\* C3: in the two-children scenario IRotator.run ends and returns (1, 2), the
\* children's ids in spawn order, and within a sweep the first child never
\* runs before the second.
C3_PairScenario ==
    /\ (engine = "rot" /\ prog[0] = "pairroot" /\ pc = "sweep")
          ~> (pc = "returned" /\ result = Returned(<< 1, 2 >>))
    /\ [](prog[0] = "pairroot" =>
            \A i, j \in DOMAIN log : (log[i] = 1 /\ log[j] = 2) => j < i)

\* C3 witness: the scenario returned (1, 2) after a last sweep in which the
\* second child ran before the first and the root last.
C3_Witness ==
    /\ engine = "rot" /\ prog[0] = "pairroot"
    /\ pc = "returned" /\ result = Returned(<< 1, 2 >>)
    /\ log = << 2, 1, 0 >>
    /\ outcome[1] = Returned(IntV(1)) /\ outcome[2] = Returned(IntV(2))

\* What the latest resumption delivered.
Delivered(l) == [val |-> l.val, exc |-> l.exc]

\* The latest request of t was a stack_add that IStack dispatched with success.
Pushed(t) ==
    /\ engine = "stack"
    /\ pend[t].name = "stack_add" /\ pend[t].ok /\ pend[t].exc = NoExc

BadTable == ~given.dict \/ given.keys \cap Range(Reserved(engine)) # {}

\* C6: in both engines, run with a table that is no dict, or that holds a
\* reserved name of the engine, raises (TypeError, ValueError) with no
\* coroutine resumed, an empty stack and an empty registry.
C6_SetupValidation ==
    (pc # "setup" /\ BadTable) =>
        /\ pc = "raised"
        /\ result = Raised(IF ~given.dict THEN "TypeError" ELSE "ValueError")
        /\ last = NoLast
        /\ stack = << >>
        /\ coro_info = << >> /\ id_ = 0

\* C6 witness: IRotator.run raised ValueError for a table holding the last of
\* its reserved names.
C6_Witness ==
    /\ engine = "rot" /\ pc = "raised"
    /\ "schedule" \in given.keys
    /\ result = Raised("ValueError")

\* C7: under IRotator, an ordinary failure that ends a coroutine other than
\* the root is stored on its info (exc set, val None, terminated), its
\* waiters are made active, run does not raise and the for loop goes on with
\* the rest of the snapshot; run raises an ordinary failure only if the root
\* itself ended with it.
C7_LocalFailureStaysLocal ==
    /\ [][ (engine = "rot" /\ Stepped /\ last'.task # 0
            /\ last'.mv.k = "raise" /\ IsException(last'.mv.e)) =>
             LET t == last'.task IN
             /\ info'[t].terminated /\ ~info'[t].active
             /\ info'[t].exc = last'.mv.e /\ info'[t].val = NoneV
             /\ \A w \in Range(info[t].waiting_coros) :
                   ~info[w].terminated => info'[w].active
             /\ pc' = "for" /\ result' = NoResult /\ todo' = todo
         ]_vars
    /\ []((engine = "rot" /\ pc = "raised" /\ id_ > 0 /\ IsException(result.e)) =>
            /\ info[0].terminated
            /\ outcome[0] = Raised(result.e))

\* C7 witness: a coroutine other than the root ended with E1 while the root
\* waited for it; the root is active again and the sweep goes on.
C7_Witness ==
    /\ engine = "rot" /\ pc = "for"
    /\ \E t \in Ids \ {0} :
          /\ info[t].terminated /\ info[t].exc = "E1"
          /\ 0 \in Range(info[t].waiting_coros)
          /\ last.task = t
    /\ info[0].active /\ todo # << >>

\* The latest step let a failure that is no Exception reach the handler.
FatalStep ==
    /\ engine = "rot" /\ Stepped
    /\ Escape(actions, last'.mv).kind = "exc"
    /\ ~IsException(Escape(actions, last'.mv).e)

\* C8 as stated: a failure that is no Exception, escaping while a coroutine is
\* driven, is raised out of IRotator.run at once, no coroutine is resumed
\* afterwards, and no info holds the failure.
C8_Original ==
    [][ /\ FatalStep =>
            /\ pc' = "raised"
            /\ result' = Raised(Escape(actions, last'.mv).e)
            /\ \A i \in Ids : info'[i].exc # Escape(actions, last'.mv).e
        /\ (engine = "rot" /\ pc = "raised") => FALSE
      ]_vars

\* C8 as amended: the failure is raised out of run at once and no coroutine
\* is resumed afterwards, but it is first stored on the info of the coroutine
\* that was driven, as for any ending: terminated, exc set, val None, waiters
\* made active, info removed from the registry.
C8_FatalAbortsRun ==
    [][ /\ FatalStep =>
            LET t == last'.task
                e == Escape(actions, last'.mv).e
            IN
            /\ pc' = "raised"
            /\ result' = Raised(e)
            /\ info'[t].terminated /\ ~info'[t].active
            /\ info'[t].exc = e /\ info'[t].val = NoneV
            /\ \A w \in Range(info[t].waiting_coros) :
                  ~info[w].terminated => info'[w].active
            /\ t \notin Range(coro_info')
        /\ (engine = "rot" /\ pc = "raised") => FALSE
      ]_vars

\* C8 witness: the abort action, requested by a coroutine other than the
\* root, made run raise KeyboardInterrupt while the root was still live.
C8_Witness ==
    /\ engine = "rot" /\ pc = "raised"
    /\ result = Raised("KeyboardInterrupt")
    /\ last.task # 0 /\ last.mv = Req("abort")
    /\ info[last.task].exc = "KeyboardInterrupt"
    /\ 0 \in Range(coro_info)

\* C9: under IRotator, a coroutine that requested schedule() is not resumed
\* again in the same sweep; its info stays active and registered and the for
\* loop goes on with the rest of the snapshot, every active info of which is
\* driven when the loop takes it; the coroutine is in the next sweep's
\* snapshot, stays active until the loop takes it, and is then driven, so
\* that by the end of that sweep it has been resumed.
C9_ScheduleYieldsOneSweep ==
    /\ [][ engine = "rot" =>
             /\ Stepped => last'.task \notin sched
             /\ (Stepped /\ last'.mv = Req("schedule")) =>
                   /\ pc' = "for" /\ todo' = todo
                   /\ last'.task \in sched'
                   /\ info'[cid].active /\ ~info'[cid].terminated
                   /\ cid \in Range(coro_info')
             /\ (pc = "sweep" /\ pc' = "for") => sched \subseteq Range(todo')
             /\ (pc = "for" /\ todo # << >> /\ seen' # seen
                 /\ (Head(todo) \in owed \/ info[Head(todo)].active)) =>
                   /\ pc' = "while" /\ cid' = Head(todo)
         ]_vars
    /\ []((engine = "rot" /\ pc \in {"for", "while"}) =>
            \A t \in owed :
               /\ info[t].active
               /\ t \in Range(todo) \/ (t = cid /\ pc = "while"))
    /\ []((engine = "rot" /\ pc = "sweep") => owed = {})

\* C9 witness: a child of the scenario, having requested schedule() in one
\* sweep, was resumed with None in the next one, after the younger child.
C9_Witness ==
    /\ engine = "rot"
    /\ prog[1] = "schedchild" /\ n[1] = 2
    /\ last.task = 1 /\ last.val = NoneV /\ last.exc = NoExc
    /\ log = << 2, 1 >>

Decreasing(s) == \A i, j \in DOMAIN s : i < j => s[i] > s[j]

\* C10: under IRotator, a sweep takes the registered infos newest id first and
\* the root last, each once; the coroutines run in that order; the loop takes
\* the next info only when the current one has stopped being driven.
C10_ReverseSpawnOrder ==
    /\ [](engine = "rot" =>
            /\ Decreasing(seen) /\ Decreasing(log) /\ Decreasing(todo)
            /\ pc \in {"for", "while"} =>
                  \A i \in DOMAIN seen, k \in DOMAIN todo : todo[k] < seen[i]
            /\ \A i \in DOMAIN log : \E k \in DOMAIN seen : seen[k] = log[i])
    /\ [][ engine = "rot" =>
             /\ (pc = "sweep" /\ pc' = "for") =>
                   /\ Range(todo') = Range(coro_info)
                   /\ Len(todo') = Len(coro_info)
                   /\ todo'[Len(todo')] = 0
             /\ (pc = "for" /\ pc' = "sweep") => (todo = << >> /\ seen[Len(seen)] = 0)
             /\ (seen' # seen /\ seen # << >>) =>
                   (~(active /\ info[cid].active) \/ info[cid].terminated)
         ]_vars

\* C10 witness: three coroutines spawned in the order 0, 1, 2 ran in one
\* sweep in the order 2, 1, 0.
C10_Witness ==
    /\ engine = "rot"
    /\ prog[0] = "free"
    /\ log = << 2, 1, 0 >> /\ seen = << 2, 1, 0 >>

\* C11 as stated: under IRotator a coroutine registered by new_coro during a
\* sweep has been resumed at least once when that sweep ends.
C11_Original ==
    (engine = "rot" /\ pc = "sweep") => born \subseteq Range(log)

\* C11 as amended: a coroutine registered by new_coro during a sweep is not
\* resumed in that sweep, which only resumes coroutines of the snapshot it
\* started with; the new info is registered at once, active and not
\* terminated, outside the snapshot; an info stops being active only by a
\* step of its own coroutine; and the next sweep's snapshot starts with the
\* coroutines registered during this one, all active.
C11_SpawnedRunsNextSweep ==
    /\ [][ engine = "rot" =>
             /\ Stepped =>
                   /\ last'.task \notin born
                   /\ last'.task \in Range(seen)
             /\ (Stepped /\ last'.mv.name = "new_coro" /\ pend'[cid].ok) =>
                   /\ born' = born \cup {id_} /\ id_ \notin born
                   /\ todo' = todo
             /\ \A t \in Ids :
                   (info[t].active /\ ~info'[t].active) => (Stepped /\ t = cid)
             /\ (pc = "sweep" /\ pc' = "for") =>
                   /\ born \subseteq Range(todo')
                   /\ \A i \in 1 .. Cardinality(born) : todo'[i] \in born
                   /\ \A c \in born : info[c].active
         ]_vars
    /\ [](engine = "rot" =>
            \A c \in born :
               /\ c \in Range(coro_info)
               /\ c \notin Range(todo) /\ c \notin Range(seen)
               /\ info[c].active /\ ~info[c].terminated
               /\ parent[c] \in Range(seen))

\* C11 witness: the child of a scripted root, registered and waited for in the
\* first sweep, is resumed for the first time in the second sweep.
C11_Witness ==
    /\ engine = "rot" /\ prog[0] = "waitroot"
    /\ n[0] = 2 /\ n[1] = 1
    /\ last.task = 1 /\ log = << 1 >>
    /\ born = {} /\ waits[0] = 1

\* The latest step resumed a coroutine that was suspended by a wait_coro on
\* the info of a coroutine it spawned itself.
WokenParent ==
    /\ engine = "rot" /\ Stepped
    /\ waits[last'.task] # -1
    /\ parent[waits[last'.task]] = last'.task

\* The latest step ended a coroutine while the coroutine that spawned it was
\* suspended by a wait_coro on its info, and run was not aborted.
EndedForParent ==
    /\ engine = "rot" /\ Stepped
    /\ info'[last'.task].terminated
    /\ parent[last'.task] # -1
    /\ waits[parent[last'.task]] = last'.task
    /\ pc' # "raised"

\* C12 as stated: under IRotator, the info new_coro returns is not terminated,
\* and a coroutine A suspended by wait_coro on the info of a coroutine B it
\* spawned is next resumed in a sweep after the one in which B ended: B was not
\* resumed in the sweep in which A is resumed.
C12_Original ==
    [][ /\ (engine = "rot" /\ Stepped /\ id_' # id_) => ~info'[id_].terminated
        /\ WokenParent => waits[last'.task] \notin Range(log)
      ]_vars

\* C12 as amended: the info new_coro returns is not terminated; when B ends
\* (and run is not aborted) A is made active while the for loop of that sweep
\* still has A to visit, and A is resumed, with no value and no failure,
\* later in the same sweep in which B ended.
C12_ParentWokenSameSweep ==
    [][ /\ (engine = "rot" /\ Stepped /\ id_' # id_) => ~info'[id_].terminated
        /\ WokenParent =>
              /\ info[waits[last'.task]].terminated
              /\ waits[last'.task] \in Range(log)
              /\ last'.val = NoneV /\ last'.exc = NoExc
        /\ EndedForParent =>
              /\ info'[parent[last'.task]].active
              /\ parent[last'.task] \in Range(todo')
      ]_vars

\* C12 witness: a scripted root that spawned a child and waited for it is
\* resumed in the sweep in which the child returned, right after it.
C12_Witness ==
    /\ engine = "rot" /\ prog[0] = "waitroot"
    /\ last.task = 0 /\ n[0] = 3
    /\ log = << 1, 0 >>
    /\ info[1].terminated /\ outcome[1] = Returned(IntV(1))

\* IStack.run was started with the root of the nesting scenario and a table
\* its set-up accepts.
Nesting == engine = "stack" /\ prog[0] = "nest" /\ ~BadTable

\* C13: under IStack, for every depth N of the nesting scenario run ends and
\* returns the constant of the innermost sub-task; meanwhile run is in its one
\* loop, whose only record of the nesting is the list 'stack': it holds the
\* coroutines nested so far, outermost first, none twice, and never more than
\* N + 1 of them; every value on its way down is the constant.
C13_DepthIndependence ==
    /\ (Nesting /\ pc = "loop") ~> (pc = "returned" /\ result = Returned(Const))
    /\ [](Nesting =>
            /\ pc \in {"setup", "loop", "returned"}
            /\ Len(stack) <= depth + 1
            /\ ncoro <= depth + 1
            /\ \A i \in DOMAIN stack : stack[i] = i - 1
            /\ pc = "loop" => (stack # << >> /\ exc = NoExc /\ val \in {NoneV, Const})
            /\ pc = "returned" => (result = Returned(Const) /\ stack = << 0 >>))

\* C13 witness: run returned the constant after the root nested three
\* sub-tasks, each of which was pushed and has ended.
C13_Witness ==
    /\ Nesting /\ depth = 3
    /\ pc = "returned" /\ result = Returned(Const)
    /\ ncoro = 4 /\ n[3] = 1 /\ n[0] = 2
    /\ last.task = 0 /\ last.val = Const

EndedStep == engine = "rot" /\ Stepped /\ info'[last'.task].terminated

\* C15: under IRotator, a coroutine W suspended by wait_coro on the info R
\* stays inactive, once in R's waiting_coros, as long as R is not terminated;
\* the step that ends R's coroutine, with a value or with a failure, makes W
\* active with val and exc None; an info becomes active by no other step than
\* the ending of the coroutine it waits for, so W is woken once for that
\* wait; and W's next resumption delivers no value and no failure.
C15_WokenOnceAtTermination ==
    /\ [](engine = "rot" =>
            \A w \in Ids :
               (waits[w] # -1 /\ ~info[waits[w]].terminated) =>
                  /\ ~info[w].active /\ ~info[w].terminated
                  /\ Cardinality({ k \in DOMAIN info[waits[w]].waiting_coros :
                                      info[waits[w]].waiting_coros[k] = w }) = 1)
    /\ [][ /\ EndedStep =>
               \A w \in Range(info[last'.task].waiting_coros) :
                  /\ waits[w] = last'.task
                  /\ info'[w].active
                  /\ info'[w].val = NoneV /\ info'[w].exc = NoExc
           /\ \A w \in Ids :
                 (engine = "rot" /\ ~info[w].active /\ info'[w].active) =>
                    /\ EndedStep
                    /\ waits[w] = last'.task
                    /\ w \in Range(info[last'.task].waiting_coros)
           /\ (engine = "rot" /\ Stepped /\ waits[last'.task] # -1) =>
                 /\ info[waits[last'.task]].terminated
                 /\ last'.val = NoneV /\ last'.exc = NoExc
         ]_vars

\* C15 witness: the root and its second child waited for the first child; its
\* ending with the failure E1 made both active, and the root has been resumed
\* since, with no value and no failure.
C15_Witness ==
    /\ engine = "rot"
    /\ info[1].terminated /\ outcome[1] = Raised("E1")
    /\ info[1].waiting_coros = << 0, 2 >>
    /\ last.task = 0 /\ last.val = NoneV /\ last.exc = NoExc
    /\ info[2].active /\ waits[2] = 1

\* ---------------------------------------------------------------- claims, frame list
\* The latest step of IStack.run resumed the top coroutine, which yielded a
\* request.
Requested == engine = "stack" /\ Stepped /\ last'.mv.k = "req"

\* The stack after the latest step is the one before it, or that one with the
\* coroutine of a stack_add request appended.
SameOrPushed ==
    \/ stack' = stack
    \/ /\ last'.mv.name = "stack_add"
       /\ stack' = Append(stack, ncoro)

\* C16 as stated: under IStack the stack is never empty while the loop runs and
\* only its last coroutine is resumed; when that coroutine yields a request,
\* the outcome of the dispatch, whatever its kind, is the pending value or
\* failure of the next turn and the stack loses no coroutine (stack_add
\* appends one); the stack loses a coroutine only when that coroutine ended.
C16_Original ==
    /\ []((engine = "stack" /\ pc = "loop") => stack # << >>)
    /\ [][ /\ (engine = "stack" /\ Stepped) => last'.task = Top
           /\ Requested =>
                 /\ val' = Outcome(actions, last'.mv).val
                 /\ exc' = Outcome(actions, last'.mv).exc
                 /\ pc' = "loop"
                 /\ SameOrPushed
           /\ (engine = "stack" /\ Len(stack') < Len(stack)) =>
                 /\ Stepped /\ last'.mv.k \in {"ret", "raise"}
                 /\ stack' = SubSeq(stack, 1, Len(stack) - 1)
         ]_vars

\* C16 as amended: the same for a dispatch that returns or raises an
\* Exception.  A failure of the dispatch that is no Exception is handled as if
\* the top coroutine had raised it: with more than one coroutine on the stack
\* the top one is removed, although it has not ended, and the failure is
\* pending for the new top; with one coroutine left run raises the failure.
C16_FrameList ==
    /\ []((engine = "stack" /\ pc = "loop") => stack # << >>)
    /\ [][ /\ (engine = "stack" /\ Stepped) => last'.task = Top
           /\ (Requested /\ Outcome(actions, last'.mv).exc \notin FatalExc) =>
                 /\ val' = Outcome(actions, last'.mv).val
                 /\ exc' = Outcome(actions, last'.mv).exc
                 /\ pc' = "loop"
                 /\ SameOrPushed
           /\ (Requested /\ Outcome(actions, last'.mv).exc \in FatalExc) =>
                 IF Len(stack) > 1
                 THEN /\ stack' = SubSeq(stack, 1, Len(stack) - 1)
                      /\ val' = NoneV
                      /\ exc' = Outcome(actions, last'.mv).exc
                      /\ pc' = "loop"
                 ELSE /\ stack' = stack
                      /\ pc' = "raised"
                      /\ result' = Raised(Outcome(actions, last'.mv).exc)
           /\ (engine = "stack" /\ Len(stack') < Len(stack)) =>
                 /\ Stepped
                 /\ \/ last'.mv.k \in {"ret", "raise"}
                    \/ Outcome(actions, last'.mv).exc \in FatalExc
                 /\ stack' = SubSeq(stack, 1, Len(stack) - 1)
         ]_vars

\* C16 witness: a pushed coroutine requested the abort action; it was removed
\* from the stack and the action's failure is pending for the root.
C16_Witness ==
    /\ engine = "stack" /\ pc = "loop"
    /\ last.task = 1 /\ last.mv = Req("abort")
    /\ stack = << 0 >> /\ ncoro = 2
    /\ exc = "KeyboardInterrupt" /\ val = NoneV

WaitsFor(t) ==
    IF waits[t] # -1 /\ ~info[waits[t]].terminated THEN waits[t] ELSE -1

\* The k-th info on the chain of waits that starts at t, or -1.
RECURSIVE Hop(_, _)
Hop(t, k) ==
    IF k = 0 THEN t
    ELSE IF Hop(t, k - 1) = -1 THEN -1
    ELSE WaitsFor(Hop(t, k - 1))

\* t waits for itself, directly or through other coroutines.
InCycle(t) == \E k \in 1 .. Cardinality(Ids) : Hop(t, k) = t

\* Some coroutine waits for itself, directly or through others.
Cycle == engine = "rot" /\ \E t \in Ids : InCycle(t)

\* run is over.
Over == pc \in {"returned", "raised"}

\* C18 as stated: under IRotator, when no coroutine ever waits for itself,
\* directly or through others (requests are finitely many, every action
\* returns), every coroutine the root waits for ends, the root ends, and run
\* returns the root's value or raises the root's failure.
C18_Original ==
    /\ <>(BadTable \/ Cycle \/ (Over /\ info[0].terminated /\ result = outcome[0]))
    /\ \A r \in Ids :
          (engine = "rot" /\ waits[0] = r) ~> (Cycle \/ info[r].terminated)

\* C18 as amended: under the same conditions run is over eventually, and it
\* ends in one of two ways: the root ended and run returns its value or raises
\* its failure, or a coroutine let a failure that is no Exception escape and
\* run raised that failure at once, the root and the coroutines it waits for
\* being left as they were.  Every coroutine the root waits for ends unless
\* run is aborted in that way.
C18_RunEnds ==
    /\ <>(BadTable \/ Cycle \/ Over)
    /\ \A r \in Ids :
          (engine = "rot" /\ waits[0] = r)
             ~> (Cycle \/ info[r].terminated \/ (pc = "raised" /\ result.e \in FatalExc))
    /\ []((engine = "rot" /\ Over /\ ~BadTable) =>
            \/ info[0].terminated /\ result = outcome[0]
            \/ /\ pc = "raised" /\ result.e \in FatalExc
               /\ outcome[last.task] = result)
    /\ []((engine = "rot" /\ pc = "sweep" /\ ~info[0].terminated /\ ~Cycle) =>
            \E t \in Range(coro_info) : info[t].active)

\* C18 witness: run returned after the root had waited for a child that itself
\* had waited for the second child, no coroutine ever waiting in a cycle.
C18_Witness ==
    /\ engine = "rot" /\ pc = "returned" /\ prog[0] = "free"
    /\ 0 \in Range(info[1].waiting_coros)
    /\ 1 \in Range(info[2].waiting_coros)
    /\ info[1].terminated /\ info[2].terminated
    /\ result = outcome[0]

\* t waits in a cycle, or for a coroutine that does, directly or through
\* others.
Stuck(t) ==
    \E k \in 0 .. Cardinality(Ids) : Hop(t, k) # -1 /\ InCycle(Hop(t, k))

\* No registered info is active: a sweep resumes nobody.
Idle == \A t \in Range(coro_info) : ~info[t].active

\* Coroutines that wait in a cycle, or for one that does, stay so, inactive
\* and not terminated, and are not resumed.
StuckForGood ==
    \A t \in Ids :
       Stuck(t) =>
          /\ Stuck(t)'
          /\ ~info[t].active /\ ~info'[t].active
          /\ ~info[t].terminated /\ ~info'[t].terminated
          /\ Stepped => last'.task # t

\* C19 as stated: under IRotator a coroutine may wait on its own info, or two
\* on each other's; those infos, and the ones waiting for them, then stay
\* inactive and not terminated and their coroutines are not resumed; when the
\* root is one of them run neither returns nor raises.
C19_Original ==
    [][ engine = "rot" =>
          /\ StuckForGood
          /\ Stuck(0) => ~Over'
      ]_vars

\* C19 as amended: the same, except that run does raise when a coroutine that
\* is not stuck lets a failure that is no Exception escape; otherwise run
\* never returns nor raises: it goes on sweeping, resuming the coroutines that
\* are not stuck as long as any is active, and from then on nobody.
C19_NoDeadlockDetection ==
    /\ [][ engine = "rot" =>
             /\ StuckForGood
             /\ (Stuck(0) /\ Over') =>
                   /\ pc' = "raised" /\ result'.e \in FatalExc
                   /\ Stepped /\ ~Stuck(last'.task)
                   /\ outcome'[last'.task] = result'
             /\ (Stuck(0) /\ Idle) => (~Stepped /\ Idle' /\ info' = info)
         ]_vars
    /\ (engine = "rot" /\ Stuck(0)) ~> (pc = "raised" \/ Idle)
    /\ (engine = "rot" /\ Stuck(0) /\ pc = "for") ~> (pc \in {"sweep", "raised"})
    /\ (engine = "rot" /\ Stuck(0) /\ pc = "sweep") ~> (pc = "for")

\* C19 witness: the root and its child wait for each other, and a sweep has
\* visited both without resuming either.
C19_Witness ==
    /\ engine = "rot" /\ pc = "for"
    /\ waits[0] = 1 /\ waits[1] = 0
    /\ seen = << 1, 0 >> /\ log = << >>
    /\ Stuck(0) /\ Idle

\* ---------------------------------------------------------------- claims, table
\* The reserved names of the engine that come before the first one the table
\* run was given already holds.
BoundBeforeFailure ==
    { Reserved(engine)[i] : i \in { j \in DOMAIN Reserved(engine) :
          \A h \in 1 .. j : Reserved(engine)[h] \notin given.keys } }

\* C20: in both engines the set-up of run only inserts reserved names into the
\* caller's table and run never changes the table afterwards; a set-up that
\* succeeds leaves every reserved name in it, so the table a second run of
\* the same engine is given holds them and that run raises ValueError with no
\* coroutine resumed; a set-up that fails on a reserved name the table holds
\* leaves in it the reserved names that come before that one.
C20_TableEffect ==
    /\ [][ /\ actions'.dict = actions.dict
           /\ actions.keys \subseteq actions'.keys
           /\ (actions'.keys \ actions.keys) \subseteq Range(Reserved(engine))
           /\ pc # "setup" => actions' = actions
           /\ (pc \in {"returned", "raised"} /\ pc' = "setup") =>
                 /\ given' = actions /\ engine' = engine
                 /\ (given.dict /\ ~BadTable) => Range(Reserved(engine)) \subseteq given'.keys
                 /\ BadTable'
         ]_vars
    /\ []((pc # "setup" /\ ~BadTable) =>
            actions.keys = given.keys \cup Range(Reserved(engine)))
    /\ []((pc # "setup" /\ BadTable) =>
            /\ pc = "raised" /\ last = NoLast
            /\ result = Raised(IF ~given.dict THEN "TypeError" ELSE "ValueError")
            /\ given.dict => actions.keys = given.keys \cup BoundBeforeFailure)

\* C20 witness: a second run of IRotator on the table its first run had bound
\* all the reserved names in raised ValueError at set-up.
C20_Witness ==
    /\ engine = "rot" /\ pc = "raised"
    /\ Range(RotReserved) \subseteq given.keys
    /\ result = Raised("ValueError") /\ last = NoLast
    /\ actions = given

====
